---- MODULE Spec2Model ----
(***************************************************************************)
(* Model of src/import-module-schematic/index.ts: importAndAddModule, the  *)
(* rule that adds `import { X } from 'y';` to a module file and appends X  *)
(* to the imports array of the file's NgModule decorator.                  *)
(*                                                                         *)
(* A file's text is a sequence of lexical tokens (identifiers, keywords,   *)
(* punctuation, string literals, single blanks and newlines).  An offset   *)
(* is a number of tokens from the start of the text, so that the token at  *)
(* offset p is text[p + 1] and a node spanning [start, end) has the text   *)
(* SubSeq(text, start + 1, end).  The options' import name is an           *)
(* identifier and its source a plain module name, so inserted text never   *)
(* joins a neighbouring token.                                             *)
(***************************************************************************)
EXTENDS Integers, Sequences, FiniteSets, TLC

\* ------------------------------------------------------------------ text

Trivia == {" ", "\n"}

StringLiterals == {"'a'", "'b'", "\"b\""}

Punctuation == {"{", "}", "(", ")", "[", "]", ",", ";", ":", "@", "...", "EOF"}

Keywords == {"import", "from", "class", "static"}

OpenBrackets == {"{", "(", "["}

CloseBrackets == {"}", ")", "]"}

NoNode == [kind |-> "undefined"]

\* ts.isIdentifier on the node made of the single token tok
IsIdentifier(tok) ==
    tok \notin Trivia \cup StringLiterals \cup Punctuation \cup Keywords

\* the token at offset p of text t
Tok(t, p) == IF p >= 0 /\ p < Len(t) THEN t[p + 1] ELSE "EOF"

\* node.getText(sourceFile) for a node spanning [start, end)
GetText(t, start, end) == SubSeq(t, start + 1, end)

RECURSIVE SkipTrivia(_, _)
\* the scanner skipping blanks and newlines before a token
SkipTrivia(t, p) ==
    IF p < Len(t) /\ t[p + 1] \in Trivia THEN SkipTrivia(t, p + 1) ELSE p

RECURSIVE SkipTriviaBack(_, _, _)
\* the end offset of the last token before offset p that is not trivia
SkipTriviaBack(t, p, lo) ==
    IF p > lo /\ t[p] \in Trivia THEN SkipTriviaBack(t, p - 1, lo) ELSE p

RECURSIVE MatchClose(_, _, _)
\* the offset of the bracket closing the one opened just before offset p
MatchClose(t, p, depth) ==
    IF p >= Len(t) THEN Len(t)
    ELSE IF t[p + 1] \in CloseBrackets
         THEN IF depth = 1 THEN p ELSE MatchClose(t, p + 1, depth - 1)
    ELSE IF t[p + 1] \in OpenBrackets THEN MatchClose(t, p + 1, depth + 1)
    ELSE MatchClose(t, p + 1, depth)

RECURSIVE FindToken(_, _, _, _)
\* the offset of the first token of toks in [p, stop), or stop
FindToken(t, p, stop, toks) ==
    IF p >= stop THEN stop
    ELSE IF t[p + 1] \in toks THEN p
    ELSE FindToken(t, p + 1, stop, toks)

RECURSIVE SplitTop(_, _, _, _, _)
\* the comma-separated items of [p, hi), each trimmed to [start, end);
\* a trailing comma ends the list and adds no item
SplitTop(t, p, hi, segStart, depth) ==
    LET s == SkipTrivia(t, segStart)
        e == SkipTriviaBack(t, p, segStart)
        item == IF s < e THEN <<[start |-> s, end |-> e]>> ELSE <<>>
    IN  IF p >= hi THEN item
        ELSE IF t[p + 1] = "," /\ depth = 0
             THEN item \o SplitTop(t, p + 1, hi, p + 1, 0)
        ELSE IF t[p + 1] \in OpenBrackets
             THEN SplitTop(t, p + 1, hi, segStart, depth + 1)
        ELSE IF t[p + 1] \in CloseBrackets
             THEN SplitTop(t, p + 1, hi, segStart, depth - 1)
        ELSE SplitTop(t, p + 1, hi, segStart, depth)

\* ---------------------------------------------------------------- parser
\* ts.createSourceFile, for the part of the language the rule inspects.

\* an array literal's elements, or an identifier, in [s, e)
ParseInitializer(t, s, e) ==
    IF Tok(t, s) = "["
    THEN [kind |-> "ArrayLiteralExpression", start |-> s, end |-> e,
          elements |-> SplitTop(t, s + 1, e - 1, s + 1, 0)]
    ELSE [kind |-> "Identifier", start |-> s, end |-> e, elements |-> <<>>]

\* one property of an object literal, in [s, e)
ParseProperty(t, s, e) ==
    LET c == SkipTrivia(t, s + 1)
    IN  IF Tok(t, s) = "..."
        THEN [kind |-> "SpreadAssignment", name |-> "", nameIsIdentifier |-> FALSE,
              initializer |-> NoNode]
        ELSE IF c < e /\ Tok(t, c) = ":"
        THEN [kind |-> "PropertyAssignment", name |-> Tok(t, s),
              nameIsIdentifier |-> IsIdentifier(Tok(t, s)),
              initializer |-> ParseInitializer(t, SkipTrivia(t, c + 1), e)]
        ELSE [kind |-> "ShorthandPropertyAssignment", name |-> Tok(t, s),
              nameIsIdentifier |-> TRUE, initializer |-> NoNode]

\* one argument of a call, in [s, e)
ParseArgument(t, s, e) ==
    IF Tok(t, s) = "{"
    THEN LET items == SplitTop(t, s + 1, e - 1, s + 1, 0)
         IN  [kind |-> "ObjectLiteralExpression", start |-> s, end |-> e,
              properties |-> [i \in 1..Len(items) |->
                                 ParseProperty(t, items[i].start, items[i].end)]]
    ELSE [kind |-> "Identifier", start |-> s, end |-> e, properties |-> <<>>]

\* the decorator whose "@" stands at offset p
ParseDecorator(t, p) ==
    IF Tok(t, p + 2) = "("
    THEN LET close == MatchClose(t, p + 3, 1)
             items == SplitTop(t, p + 3, close, p + 3, 0)
         IN  [start |-> p, end |-> close + 1, isCall |-> TRUE,
              callee |-> Tok(t, p + 1),
              arguments |-> [i \in 1..Len(items) |->
                                ParseArgument(t, items[i].start, items[i].end)]]
    ELSE [start |-> p, end |-> p + 2, isCall |-> FALSE,
          callee |-> Tok(t, p + 1), arguments |-> <<>>]

RECURSIVE ParseDecorators(_, _)
\* the decorators standing in a row from offset p
ParseDecorators(t, p) ==
    IF Tok(t, p) = "@"
    THEN LET d == ParseDecorator(t, p)
         IN  <<d>> \o ParseDecorators(t, SkipTrivia(t, d.end))
    ELSE <<>>

Node(kind, start, end, spec, bindings, decorators, children) ==
    [kind |-> kind, start |-> start, end |-> end, moduleSpecifier |-> spec,
     namedBindings |-> bindings, decorators |-> decorators, children |-> children]

\* import ... from '...'; starting at offset s
ParseImport(t, s, stop) ==
    LET lit == FindToken(t, s + 1, stop, StringLiterals)
        semi == SkipTrivia(t, lit + 1)
        end == IF semi < stop /\ Tok(t, semi) = ";" THEN semi + 1 ELSE lit + 1
        open == FindToken(t, s + 1, lit, {"{"})
        close == FindToken(t, open, lit, {"}"})
        bindings == IF open < lit /\ close < lit
                    THEN GetText(t, open, close + 1) ELSE <<>>
    IN  IF lit >= stop
        THEN Node("Other", s, s + 1, <<>>, <<>>, <<>>, <<>>)
        ELSE Node("ImportDeclaration", s, end, GetText(t, lit, lit + 1), bindings,
                  <<>>, <<>>)

RECURSIVE ParseStatements(_, _, _)
RECURSIVE ParseStatement(_, _, _)

\* the statement starting at offset s (s is not trivia), within [s, stop)
ParseStatement(t, s, stop) ==
    LET tok == Tok(t, s)
    IN  IF tok = "import" THEN ParseImport(t, s, stop)
        ELSE IF tok \in {"@", "class"}
        THEN LET decs == ParseDecorators(t, s)
                 kw == IF decs = <<>> THEN s
                       ELSE SkipTrivia(t, decs[Len(decs)].end)
                 open == FindToken(t, kw, stop, {"{"})
                 close == MatchClose(t, open + 1, 1)
             IN  IF Tok(t, kw) = "class" /\ open < stop
                 THEN Node("ClassDeclaration", s, close + 1, <<>>, <<>>, decs,
                           ParseStatements(t, open + 1, close))
                 ELSE Node("Other", s, kw + 1, <<>>, <<>>, <<>>, <<>>)
        ELSE IF tok \in {"{", "static"}
        THEN LET open == FindToken(t, s, stop, {"{"})
                 close == MatchClose(t, open + 1, 1)
             IN  Node("Block", s, close + 1, <<>>, <<>>, <<>>,
                      ParseStatements(t, open + 1, close))
        ELSE LET semi == SkipTrivia(t, s + 1)
             IN  Node("Other", s,
                      IF semi < stop /\ Tok(t, semi) = ";" THEN semi + 1 ELSE s + 1,
                      <<>>, <<>>, <<>>, <<>>)

\* the statements in [p, stop)
ParseStatements(t, p, stop) ==
    LET s == SkipTrivia(t, p)
    IN  IF s >= stop THEN <<>>
        ELSE LET n == ParseStatement(t, s, stop)
             IN  <<n>> \o ParseStatements(t, n.end, stop)

\* ts.createSourceFile(locationPath, sourceText, ...)
CreateSourceFile(t) ==
    [kind |-> "SourceFile", statements |-> ParseStatements(t, 0, Len(t))]

\* ------------------------------------------------------- syntax locator

\* options.import as the text of one identifier
SymbolText(o) == <<o.import>>

\* `'${options.from}'`
QuotedSource(o) == <<"'" \o o.from \o "'">>

\* `{ ${options.import} }`
NamedBindingsText(o) == <<"{", " ", o.import, " ", "}">>

\* sourceFile.statements.some(st => ts.isImportDeclaration(st) && ...)
AlreadyImported(sf, o) ==
    \E i \in 1..Len(sf.statements) :
        /\ sf.statements[i].kind = "ImportDeclaration"
        /\ sf.statements[i].moduleSpecifier = QuotedSource(o)
        /\ sf.statements[i].namedBindings = NamedBindingsText(o)

IsImportDeclaration(st) == st.kind = "ImportDeclaration"

\* the end of the first import declaration instead of the last
ImportInsertPositionFirst(sf) ==
    LET imports == SelectSeq(sf.statements, IsImportDeclaration)
    IN  IF imports = <<>> THEN 0 ELSE imports[1].end

\* lastImport ? lastImport.getEnd() : 0
ImportInsertPosition(sf) ==
    LET imports == SelectSeq(sf.statements, IsImportDeclaration)
    IN  IF imports = <<>> THEN 0 ELSE imports[Len(imports)].end

\* the import line written without the blanks inside its braces
ImportStatementTight(o) ==
    <<"\n", "import", " ", "{", o.import, "}", " ", "from", " ">>
        \o QuotedSource(o) \o <<";", "\n">>

\* `\nimport { ${options.import} } from '${options.from}';\n`
ImportStatement(o) ==
    <<"\n", "import", " ">> \o NamedBindingsText(o)
        \o <<" ", "from", " ">> \o QuotedSource(o) \o <<";", "\n">>

\* `,\n    ${options.import}`
ArrayEntry(o) == <<",", "\n", " ", " ", " ", " ">> \o SymbolText(o)

\* a call to the bare identifier NgModule
IsNgModuleCall(d) == d.isCall /\ IsIdentifier(d.callee) /\ d.callee = "NgModule"

\* the loop over ts.getDecorators(node): the first matching decorator
MatchingDecorator(node) ==
    LET hits == SelectSeq(node.decorators, IsNgModuleCall)
    IN  IF hits = <<>> THEN NoNode ELSE hits[1]

RECURSIVE VisitNode(_, _)
RECURSIVE VisitChildren(_, _, _)

\* visitNode: a matching class assigns ngModuleDecorator and returns without
\* descending; any other node hands its children to ts.forEachChild
VisitNode(node, found) ==
    IF node.kind = "ClassDeclaration" /\ MatchingDecorator(node) # NoNode
    THEN MatchingDecorator(node)
    ELSE VisitChildren(node.children, 1, found)

\* ts.forEachChild(node, visitNode): visitNode returns nothing, so every
\* child is visited in turn
VisitChildren(nodes, i, found) ==
    IF i > Len(nodes) THEN found
    ELSE VisitChildren(nodes, i + 1, VisitNode(nodes[i], found))

\* findNgModuleDecorator(sourceFile)
FindNgModuleDecorator(sf) == VisitChildren(sf.statements, 1, NoNode)

TypeError == [kind |-> "TypeError"]

IsImportsProperty(p) ==
    p.kind = "PropertyAssignment" /\ p.nameIsIdentifier /\ p.name = "imports"

\* findImportsArray(decorator); TypeError when arguments[0] is undefined and
\* ts.isObjectLiteralExpression reads its kind
FindImportsArray(d) ==
    IF ~d.isCall THEN NoNode
    ELSE IF d.arguments = <<>> THEN TypeError
    ELSE IF d.arguments[1].kind # "ObjectLiteralExpression" THEN NoNode
    ELSE LET props == SelectSeq(d.arguments[1].properties, IsImportsProperty)
         IN  IF props = <<>> THEN NoNode ELSE props[1].initializer

\* only the first element compared
HasElementFirstOnly(t, arr, o) ==
    /\ arr.elements # <<>>
    /\ GetText(t, arr.elements[1].start, arr.elements[1].end) = SymbolText(o)

\* importsArray.elements.some(el => el.getText(sourceFile) === options.import)
HasElement(t, arr, o) ==
    \E i \in 1..Len(arr.elements) :
        GetText(t, arr.elements[i].start, arr.elements[i].end) = SymbolText(o)

\* --------------------------------------------------------- update recorder

NoRecorder == [open |-> FALSE, path |-> "", inserts |-> <<>>]

\* tree.beginUpdate(locationPath)
BeginUpdate(path) == [open |-> TRUE, path |-> path, inserts |-> <<>>]

\* importRecorder.insertLeft(pos, content)
InsertLeft(rec, pos, content) ==
    [rec EXCEPT !.inserts = Append(@, [pos |-> pos, side |-> "left", content |-> content])]

\* importRecorder.insertRight(pos, content)
InsertRight(rec, pos, content) ==
    [rec EXCEPT !.inserts = Append(@, [pos |-> pos, side |-> "right", content |-> content])]

RECURSIVE ContentAt(_, _, _, _)
\* what was recorded on one side of offset p, in recording order
ContentAt(inserts, i, p, side) ==
    IF i > Len(inserts) THEN <<>>
    ELSE (IF inserts[i].pos = p /\ inserts[i].side = side
          THEN inserts[i].content ELSE <<>>)
         \o ContentAt(inserts, i + 1, p, side)

RECURSIVE ApplyFrom(_, _, _)
ApplyFrom(t, inserts, p) ==
    ContentAt(inserts, 1, p, "left") \o ContentAt(inserts, 1, p, "right")
        \o (IF p < Len(t) THEN <<t[p + 1]>> \o ApplyFrom(t, inserts, p + 1) ELSE <<>>)

\* the recorder's insertions applied to the text they were recorded against
ApplyUpdate(t, inserts) == ApplyFrom(t, inserts, 0)

\* -------------------------------------------------------------- the tree

Absent == [exists |-> FALSE, content |-> <<>>]

File(t) == [exists |-> TRUE, content |-> t]

\* a missing file read as an empty one
TreeReadLenient(tr, path) == IF tr[path].exists THEN tr[path] ELSE File(<<>>)

\* tree.read(locationPath): the file's entry, Absent for null
TreeRead(tr, path) == tr[path]

\* tree.commitUpdate(importRecorder)
CommitUpdate(tr, rec) ==
    [tr EXCEPT ![rec.path] = File(ApplyUpdate(@.content, rec.inserts))]

\* last = elements[elements.length - 1]; last.getEnd()
ArrayInsertPosition(arr) == arr.elements[Len(arr.elements)].end

\* the array entry recorded at the import line's insertPosition
UpdateImportsArrayShadowed(t, sf, rec, o) ==
    LET dec == FindNgModuleDecorator(sf)
        arr == IF dec = NoNode THEN NoNode ELSE FindImportsArray(dec)
        result(thrown, r) ==
            [thrown |-> thrown, recorder |-> r, decorator |-> dec, array |-> arr]
    IN  IF arr = TypeError THEN result(TRUE, rec)
        ELSE IF arr.kind # "ArrayLiteralExpression" THEN result(FALSE, rec)
        ELSE IF HasElement(t, arr, o) THEN result(FALSE, rec)
        ELSE IF arr.elements = <<>> THEN result(TRUE, rec)
        ELSE result(FALSE, InsertRight(rec, ImportInsertPosition(sf), ArrayEntry(o)))

\* lines 44-55: locate the decorator and its imports array and record the
\* array entry; thrown when findImportsArray throws or when the array has no
\* last element to take getEnd() of
UpdateImportsArray(t, sf, rec, o) ==
    LET dec == FindNgModuleDecorator(sf)
        arr == IF dec = NoNode THEN NoNode ELSE FindImportsArray(dec)
        result(thrown, r) ==
            [thrown |-> thrown, recorder |-> r, decorator |-> dec, array |-> arr]
    IN  IF arr = TypeError THEN result(TRUE, rec)
        ELSE IF arr.kind # "ArrayLiteralExpression" THEN result(FALSE, rec)
        ELSE IF HasElement(t, arr, o) THEN result(FALSE, rec)
        ELSE IF arr.elements = <<>> THEN result(TRUE, rec)
        ELSE result(FALSE, InsertRight(rec, ArrayInsertPosition(arr), ArrayEntry(o)))

\* lines 32-41: open the recorder and record the import line
UpdateImports(sf, already, o) ==
    IF already THEN BeginUpdate(o.module)
    ELSE InsertLeft(BeginUpdate(o.module), ImportInsertPosition(sf), ImportStatement(o))

\* ------------------------------------------------------------ input files

MaxRuns == 2

Named(sym) == <<"{", " ", sym, " ", "}">>

Imp(bindings, src) ==
    <<"import", " ">> \o bindings \o <<" ", "from", " ", src, ";", "\n">>

ImportSections ==
    { <<>>,
      Imp(Named("A"), "'a'"),
      Imp(Named("B"), "'b'"),
      Imp(Named("B"), "'b'") \o Imp(Named("A"), "'a'"),
      Imp(<<"{", "B", "}">>, "'b'"),
      Imp(Named("B"), "\"b\""),
      Imp(<<"{", " ", "A", ",", " ", "B", " ", "}">>, "'b'"),
      <<"import", " ", "B", " ", "from", " ", "'b'", "\n">> }

Cls(name) == <<"class", " ", name, " ", "{", "}", "\n">>

Dec(name, args) == <<"@", name, "(">> \o args \o <<")", "\n">>

Obj(props) == <<"{", " ">> \o props \o <<" ", "}">>

Prop(key, value) == <<key, ":", " ">> \o value

NgModuleClass(name, elems) ==
    Dec("NgModule", Obj(Prop("imports", <<"[">> \o elems \o <<"]">>))) \o Cls(name)

\* classes whose decorator the rule recognizes
PlainClasses ==
    { NgModuleClass("M", <<"A">>),
      NgModuleClass("M", <<"B">>),
      NgModuleClass("M", <<"A", ",", " ", "B">>),
      NgModuleClass("M", <<"\n", " ", "A", ",", "\n">>) }

\* the shapes of decorator the rule has to cope with
OtherClasses ==
    { Cls("M"),
      NgModuleClass("M", <<>>),
      Dec("NgModule", <<>>) \o Cls("M"),
      Dec("NgModule", <<"cfg">>) \o Cls("M"),
      Dec("NgModule", Obj(Prop("providers", <<"[", "A", "]">>))) \o Cls("M"),
      Dec("NgModule", Obj(Prop("imports", <<"LIST">>))) \o Cls("M"),
      Dec("NgModule", Obj(Prop("'imports'", <<"[", "A", "]">>))) \o Cls("M"),
      Dec("NgModule", Obj(<<"...", "base">>)) \o Cls("M"),
      Dec("NgModule", Obj(<<"imports">>)) \o Cls("M"),
      Dec("NgModule", Obj(Prop("providers", <<"[", "B", "]">>) \o <<",", " ">>
                          \o Prop("imports", <<"[", "A", "]">>))) \o Cls("M"),
      Dec("Component", Obj(Prop("imports", <<"[", "A", "]">>))) \o Cls("M"),
      <<"@", "NgModule", "\n">> \o Cls("M"),
      <<"@", "Injectable", "\n">> \o NgModuleClass("M", <<"A">>),
      NgModuleClass("M", <<"A">>) \o NgModuleClass("N", <<"C">>),
      NgModuleClass("M", <<"A">>) \o NgModuleClass("N", <<>>),
      <<"{", "\n">> \o NgModuleClass("M", <<"A">>) \o <<"}", "\n">>
          \o NgModuleClass("N", <<"C">>),
      Dec("NgModule", Obj(Prop("imports", <<"[", "A", "]">>)))
          \o <<"class", " ", "M", " ", "{", "static", " ", "{">>
          \o NgModuleClass("N", <<"C">>) \o <<"}", "}", "\n">> }

FewImportSections == { <<>>, Imp(Named("A"), "'a'"), Imp(Named("B"), "'b'") }

\* module files: imports then classes, and classes followed by imports
Files ==
    { i \o <<"\n">> \o c : i \in ImportSections, c \in PlainClasses }
    \cup { i \o <<"\n">> \o c : i \in FewImportSections, c \in OtherClasses }
    \cup { c \o i : i \in FewImportSections, c \in PlainClasses }

Paths == {"app.module.ts", "shared.module.ts", "missing.ts"}

Options == [module : Paths, import : {"A", "B"}, from : {"a", "b"}]

NoOptions == [module |-> "", import |-> "", from |-> ""]

NoSourceFile == [kind |-> "SourceFile", statements |-> <<>>]

NoPrev ==
    [valid |-> FALSE, options |-> NoOptions, after |-> <<>>, outcome |-> "idle",
     inserts |-> 0]

\* ------------------------------------------------------------------ state

VARIABLES
    tree,               \* the Tree: path -> file entry
    pc,                 \* where the rule's invocation stands
    error,              \* the exception the invocation ended with
    options,            \* the options of the invocation
    sourceText,         \* text.toString('utf-8')
    sourceFile,         \* ts.createSourceFile(...)
    alreadyImported,    \* the import-duplicate check
    importRecorder,     \* tree.beginUpdate(locationPath)
    ngModuleDecorator,  \* findNgModuleDecorator(sourceFile)
    importsArray,       \* findImportsArray(ngModuleDecorator)
    before,             \* the tree when the invocation started
    commits,            \* commitUpdate calls of the invocation
    runs,               \* invocations so far
    prev                \* the invocation before this one

vars == <<tree, pc, error, options, sourceText, sourceFile, alreadyImported,
          importRecorder, ngModuleDecorator, importsArray, before, commits,
          runs, prev>>

locals == <<sourceText, sourceFile, alreadyImported, importRecorder,
            ngModuleDecorator, importsArray>>

Finished == pc \in {"done", "error"}

Init ==
    /\ \E f \in Files :
         tree = [p \in Paths |->
                    IF p = "app.module.ts" THEN File(f)
                    ELSE IF p = "shared.module.ts"
                    THEN File(Imp(Named("A"), "'a'") \o NgModuleClass("S", <<"A">>))
                    ELSE Absent]
    /\ pc = "idle"
    /\ error = "none"
    /\ options = NoOptions
    /\ sourceText = <<>>
    /\ sourceFile = NoSourceFile
    /\ alreadyImported = FALSE
    /\ importRecorder = NoRecorder
    /\ ngModuleDecorator = NoNode
    /\ importsArray = NoNode
    /\ before = tree
    /\ commits = 0
    /\ runs = 0
    /\ prev = NoPrev

\* the Rule returned by importAndAddModule(options) is applied to the tree
Call ==
    /\ pc \in {"idle", "done", "error"}
    /\ runs < MaxRuns
    /\ \E o \in Options : options' = o
    /\ prev' = IF pc = "idle" THEN NoPrev
               ELSE [valid |-> TRUE, options |-> options, after |-> tree,
                     outcome |-> pc, inserts |-> Len(importRecorder.inserts)]
    /\ before' = tree
    /\ runs' = runs + 1
    /\ pc' = "read"
    /\ error' = "none"
    /\ commits' = 0
    /\ sourceText' = <<>>
    /\ sourceFile' = NoSourceFile
    /\ alreadyImported' = FALSE
    /\ importRecorder' = NoRecorder
    /\ ngModuleDecorator' = NoNode
    /\ importsArray' = NoNode
    /\ UNCHANGED tree

\* lines 17-30: read the file, throw when it is missing, parse it and look
\* for the import
ReadFile ==
    /\ pc = "read"
    /\ LET text == TreeRead(tree, options.module)
       IN  IF ~text.exists
           THEN /\ pc' = "error"
                /\ error' = "MissingFile"
                /\ UNCHANGED <<sourceText, sourceFile, alreadyImported>>
           ELSE /\ pc' = "import"
                /\ sourceText' = text.content
                /\ sourceFile' = CreateSourceFile(text.content)
                /\ alreadyImported' =
                       AlreadyImported(CreateSourceFile(text.content), options)
                /\ UNCHANGED error
    /\ UNCHANGED <<tree, options, importRecorder, ngModuleDecorator, importsArray,
                   before, commits, runs, prev>>

\* the import line committed as soon as it is recorded
InsertImportEager ==
    /\ pc = "import"
    /\ importRecorder' = UpdateImports(sourceFile, alreadyImported, options)
    /\ tree' = CommitUpdate(tree, importRecorder')
    /\ pc' = "array"
    /\ UNCHANGED <<error, options, sourceText, sourceFile, alreadyImported,
                   ngModuleDecorator, importsArray, before, commits, runs, prev>>

\* lines 32-41
InsertImport ==
    /\ pc = "import"
    /\ importRecorder' = UpdateImports(sourceFile, alreadyImported, options)
    /\ pc' = "array"
    /\ UNCHANGED <<tree, error, options, sourceText, sourceFile, alreadyImported,
                   ngModuleDecorator, importsArray, before, commits, runs, prev>>

\* lines 44-55
InsertArrayEntry ==
    /\ pc = "array"
    /\ LET r == UpdateImportsArray(sourceText, sourceFile, importRecorder, options)
       IN  /\ ngModuleDecorator' = r.decorator
           /\ importsArray' = r.array
           /\ importRecorder' = r.recorder
           /\ pc' = IF r.thrown THEN "error" ELSE "commit"
           /\ error' = IF r.thrown THEN "TypeError" ELSE error
    /\ UNCHANGED <<tree, options, sourceText, sourceFile, alreadyImported, before,
                   commits, runs, prev>>

\* lines 57-59
Commit ==
    /\ pc = "commit"
    /\ tree' = CommitUpdate(tree, importRecorder)
    /\ commits' = commits + 1
    /\ pc' = "done"
    /\ UNCHANGED <<error, options, sourceText, sourceFile, alreadyImported,
                   importRecorder, ngModuleDecorator, importsArray, before, runs, prev>>

Next == Call \/ ReadFile \/ InsertImport \/ InsertArrayEntry \/ Commit

Spec == Init /\ [][Next]_vars

\* ----------------------------------------------------------------- claims

\* the text of the target file when the invocation started
BeforeText == before[options.module].content

\* the text of the target file now
AfterText == tree[options.module].content

\* the array step has run (it ended the invocation or handed over to commit)
ArrayStepDone == pc \in {"commit", "done"} \/ (pc = "error" /\ error = "TypeError")

\* a top-level import whose specifier is the single-quoted source and whose
\* named bindings read `{ symbol }`
HasMatchingImport(sf, o) ==
    \E i \in 1..Len(sf.statements) :
        /\ sf.statements[i].kind = "ImportDeclaration"
        /\ sf.statements[i].moduleSpecifier = <<"'" \o o.from \o "'">>
        /\ sf.statements[i].namedBindings = <<"{", " ", o.import, " ", "}">>

\* the located value is an array literal
ArrayFound == importsArray.kind = "ArrayLiteralExpression"

\* the located array has an element whose text is the symbol
ArrayHasSymbol ==
    \E i \in 1..Len(importsArray.elements) :
        SubSeq(sourceText, importsArray.elements[i].start + 1,
               importsArray.elements[i].end) = <<options.import>>

Max(S) == CHOOSE m \in S : \A n \in S : n <= m

\* the end of the last top-level import declaration, or 0
ImportAnchor ==
    Max({0} \cup {sourceFile.statements[i].end : i \in
                    {j \in 1..Len(sourceFile.statements) :
                        sourceFile.statements[j].kind = "ImportDeclaration"}})

\* the end of the last element of the located array
ArrayAnchor ==
    Max({importsArray.elements[i].end : i \in 1..Len(importsArray.elements)})

ImportLine ==
    <<"\n", "import", " ", "{", " ", options.import, " ", "}", " ", "from", " ",
      "'" \o options.from \o "'", ";", "\n">>

EntryText == <<",", "\n", " ", " ", " ", " ", options.import>>

\* text t with c inserted at offset p
Splice(t, p, c) == SubSeq(t, 1, p) \o c \o SubSeq(t, p + 1, Len(t))

\* text t with c1 inserted at offset p1 and c2 at offset p2 of t
Splice2(t, p1, c1, p2, c2) ==
    IF p1 <= p2 THEN Splice(Splice(t, p2, c2), p1, c1)
    ELSE Splice(Splice(t, p1, c1), p2, c2)

Reverse(q) == [i \in 1..Len(q) |-> q[Len(q) + 1 - i]]

\* C1: when the options' module path is not in the tree, the invocation ends
\* with the missing-file error before anything is parsed, before beginUpdate,
\* before any insertion or commit, and the tree is as it was before the call
MissingFileFails ==
    (pc \notin {"idle", "read"} /\ ~before[options.module].exists) =>
        /\ pc = "error" /\ error = "MissingFile"
        /\ tree = before
        /\ importRecorder = NoRecorder
        /\ sourceFile = NoSourceFile /\ sourceText = <<>>
        /\ commits = 0

MissingFileWitness ==
    pc = "error" /\ error = "MissingFile" /\ ~before[options.module].exists

\* C2: an invocation that follows one with the same options ends with the
\* tree the first one left; when the first one committed, the second one
\* commits too and records no insertion
Idempotent ==
    (Finished /\ prev.valid /\ prev.options = options) =>
        /\ tree = prev.after
        /\ prev.outcome = "done" => (pc = "done" /\ importRecorder.inserts = <<>>)

IdempotentWitness ==
    /\ pc = "done" /\ prev.valid /\ prev.options = options
    /\ prev.outcome = "done" /\ prev.inserts = 2

\* C3: with an imports array of zero elements the array insertion is a silent
\* no-op: the invocation raises no error, commits, and the array stays empty
EmptyArrayIsSilentNoOp ==
    (Finished /\ ArrayFound /\ importsArray.elements = <<>>) =>
        /\ pc = "done" /\ error = "none" /\ commits = 1
        /\ \A i \in 1..Len(importRecorder.inserts) :
               importRecorder.inserts[i].side # "right"

\* the decorator's call has no argument, or its first argument is no object
\* literal, or that has no identifier-keyed imports property, or the
\* property's value is no array literal
UnrecognizedShape(d) ==
    \/ d.arguments = <<>>
    \/ d.arguments[1].kind # "ObjectLiteralExpression"
    \/ \A i \in 1..Len(d.arguments[1].properties) :
           LET q == d.arguments[1].properties[i]
           IN  ~(q.kind = "PropertyAssignment" /\ q.nameIsIdentifier /\ q.name = "imports")
    \/ \E i \in 1..Len(d.arguments[1].properties) :
           LET q == d.arguments[1].properties[i]
           IN  /\ q.kind = "PropertyAssignment" /\ q.nameIsIdentifier /\ q.name = "imports"
               /\ \A j \in 1..(i - 1) :
                      LET r == d.arguments[1].properties[j]
                      IN  ~(r.kind = "PropertyAssignment" /\ r.nameIsIdentifier
                            /\ r.name = "imports")
               /\ q.initializer.kind # "ArrayLiteralExpression"

\* C4: a matched decorator of an unrecognized shape is never an error: the
\* array is reported as not found, the array edit is skipped and the
\* invocation ends committed
UnrecognizedShapeNeverFails ==
    (ArrayStepDone /\ ngModuleDecorator # NoNode /\ UnrecognizedShape(ngModuleDecorator)) =>
        /\ pc # "error" /\ error = "none"
        /\ ~ArrayFound
        /\ \A i \in 1..Len(importRecorder.inserts) :
               importRecorder.inserts[i].side # "right"
        /\ pc = "done" => commits = 1

\* C5: the committed text has the import line exactly when no top-level
\* import matches, and the array entry exactly when the array is found,
\* non-empty and lacks the symbol; the invocation does not fail
EditsIndependent ==
    (Finished /\ before[options.module].exists) =>
        LET wantImport == ~HasMatchingImport(sourceFile, options)
            wantEntry == ArrayFound /\ importsArray.elements # <<>> /\ ~ArrayHasSymbol
            withEntry == IF wantEntry THEN Splice(BeforeText, ArrayAnchor, EntryText)
                         ELSE BeforeText
            shift == IF wantEntry /\ ArrayAnchor < ImportAnchor THEN Len(EntryText) ELSE 0
        IN  /\ pc = "done"
            /\ AfterText = IF wantImport
                           THEN Splice(withEntry, ImportAnchor + shift, ImportLine)
                           ELSE withEntry

\* C6: with no matching import and a located, non-empty array that lacks the
\* symbol, the committed text is the original text with the import line at
\* the end of the last top-level import declaration (0 without imports) and
\* the array entry at the end of the array's last element, and nothing else
InsertBothResult ==
    (pc = "done" /\ ~HasMatchingImport(sourceFile, options)
        /\ ArrayFound /\ importsArray.elements # <<>> /\ ~ArrayHasSymbol) =>
        /\ Len(importRecorder.inserts) = 2
        /\ AfterText = Splice2(BeforeText, ImportAnchor, ImportLine, ArrayAnchor, EntryText)

InsertBothWitness ==
    /\ pc = "done" /\ ~HasMatchingImport(sourceFile, options)
    /\ ArrayFound /\ importsArray.elements # <<>> /\ ~ArrayHasSymbol
    /\ ImportAnchor > 0
    /\ Len(importsArray.elements) > 1

\* C7: with a matching import and an array element equal to the symbol, the
\* invocation records no insertion and the committed text is the text before
BothPresentNoChange ==
    (Finished /\ before[options.module].exists
        /\ HasMatchingImport(CreateSourceFile(BeforeText), options)
        /\ ArrayStepDone /\ ArrayFound /\ ArrayHasSymbol) =>
        /\ pc = "done"
        /\ importRecorder.inserts = <<>>
        /\ AfterText = BeforeText /\ tree = before

BothPresentWitness ==
    /\ pc = "done" /\ HasMatchingImport(sourceFile, options)
    /\ ArrayFound /\ ArrayHasSymbol /\ commits = 1
    /\ Len(importsArray.elements) > 1

RECURSIVE FirstInPreOrder(_, _)
\* the NgModule decorator of the first class in pre-order that carries one
FirstInPreOrder(nodes, i) ==
    IF i > Len(nodes) THEN NoNode
    ELSE LET own == IF nodes[i].kind = "ClassDeclaration"
                    THEN MatchingDecorator(nodes[i]) ELSE NoNode
             below == FirstInPreOrder(nodes[i].children, 1)
         IN  IF own # NoNode THEN own
             ELSE IF below # NoNode THEN below
             ELSE FirstInPreOrder(nodes, i + 1)

\* C8: the decorator used is the one of the first class in pre-order that
\* carries a call to NgModule, and the array edit goes to its array
FirstDecoratorWins ==
    pc = "done" =>
        /\ ngModuleDecorator = FirstInPreOrder(sourceFile.statements, 1)
        /\ \A i \in 1..Len(importRecorder.inserts) :
               importRecorder.inserts[i].side = "right" =>
                   /\ importRecorder.inserts[i].pos > ngModuleDecorator.start
                   /\ importRecorder.inserts[i].pos < ngModuleDecorator.end

\* C9: when both edits are planned their anchors are different offsets of
\* the original text, taken while the tree still holds that text, and the
\* two insertions recorded in the other order give the same final text
OrderIndependent ==
    Len(importRecorder.inserts) = 2 =>
        /\ importRecorder.inserts[1].pos # importRecorder.inserts[2].pos
        /\ importRecorder.inserts[1].pos = ImportAnchor
        /\ importRecorder.inserts[2].pos = ArrayAnchor
        /\ pc = "commit" =>
               /\ tree = before /\ sourceText = AfterText
               /\ ApplyUpdate(sourceText, importRecorder.inserts)
                      = ApplyUpdate(sourceText, Reverse(importRecorder.inserts))
               /\ ApplyUpdate(sourceText, importRecorder.inserts)
                      = Splice2(sourceText, ImportAnchor, ImportLine, ArrayAnchor, EntryText)

OrderIndependentWitness ==
    /\ pc = "commit" /\ Len(importRecorder.inserts) = 2
    /\ importRecorder.inserts[2].pos < importRecorder.inserts[1].pos

\* C10: the tree changes only in the commit step, once per invocation, after
\* the read, beginUpdate and the insertions, and only in the target file; an
\* invocation that ended in an error has committed nothing
SingleAtomicCommit ==
    /\ [][tree' # tree =>
            /\ pc = "commit" /\ pc' = "done"
            /\ importRecorder.open /\ importRecorder' = importRecorder
            /\ Len(importRecorder.inserts) <= 2
            /\ commits = 0 /\ commits' = 1
            /\ \A p \in Paths : p # options.module => tree'[p] = tree[p]]_vars
    /\ [](commits <= 1)
    /\ [](pc = "done" => commits = 1)
    /\ [](pc = "error" => (commits = 0 /\ tree = before))
    /\ [](pc \in {"read", "import", "array", "commit"} => (commits = 0 /\ tree = before))

SingleAtomicCommitWitness ==
    pc = "done" /\ commits = 1 /\ tree # before /\ Len(importRecorder.inserts) = 2
====
